---- MODULE Spec2Model ----
(***************************************************************************)
(* Model of the browser front end of the 2D-to-3D converter: the Home page *)
(* (app/page.tsx), the ChatPanel component (components/ChatPanel.tsx) and  *)
(* the HEAD check of the ModelViewer (components/ModelViewer.tsx).         *)
(* Every async handler is cut at its awaits: one action per synchronous    *)
(* segment, the outcome of the awaited promise being an input of the step. *)
(* An optional value (File | null, ConvertedModel | null) is a sequence of *)
(* length 0 or 1.  A string whose characters matter is a sequence of       *)
(* one-character strings.                                                  *)
(***************************************************************************)
EXTENDS Integers, Sequences, FiniteSets, TLC

\* ------------------------------------------------------------------ bounds
MaxUploads == 2
MaxChatRequests == 3

\* --------------------------------------------------------------- constants
TenMB == 10 * 1024 * 1024

ErrType == "Please upload a valid image file"
ErrSize == "File size must be less than 10MB"
ErrConvert == "Failed to generate 3D model. Please try again."
SummaryFallback == "Unable to generate summary at this time. You can still use the chat to ask questions!"
ChatErrorText == <<"Sorry, I encountered an error. Please try again.">>

ImagePrefix == <<"i", "m", "a", "g", "e", "/">>

\* ---------------------------------------------------------- pure functions
\* String.prototype.startsWith
StartsWith(s, p) ==
  /\ Len(s) >= Len(p)
  /\ SubSeq(s, 1, Len(p)) = p

\* name.replace(/\.[^/.]+$/, ''): drop a final ".ext" (ext non-empty, with
\* neither "/" nor "." in it)
StripExt(s) ==
  LET dots == {i \in 1..Len(s) : s[i] = "."}
  IN IF dots = {} THEN s
     ELSE LET d == CHOOSE i \in dots : \A j \in dots : j <= i
          IN IF d < Len(s) /\ \A j \in (d + 1)..Len(s) : s[j] # "/"
             THEN SubSeq(s, 1, d - 1)
             ELSE s

IsSpace(c) == c = " "

\* String.prototype.trim
RECURSIVE TrimLeft(_)
TrimLeft(s) ==
  IF s # <<>> /\ IsSpace(Head(s)) THEN TrimLeft(Tail(s)) ELSE s

RECURSIVE TrimRight(_)
TrimRight(s) ==
  IF s # <<>> /\ IsSpace(s[Len(s)]) THEN TrimRight(SubSeq(s, 1, Len(s) - 1)) ELSE s

Trim(s) == TrimRight(TrimLeft(s))

\* ------------------------------------------------------------------ inputs
PngType == <<"i", "m", "a", "g", "e", "/", "p">>
TextType == <<"t", "e", "x", "t", "/", "p">>

SmallImage == [name |-> <<"a", ".", "p">>, type |-> PngType, size |-> 1]
LimitImage == [name |-> <<"b">>, type |-> PngType, size |-> TenMB]
LargeImage == [name |-> <<"c", ".", "p">>, type |-> PngType, size |-> TenMB + 1]
TextFile == [name |-> <<"d", ".", "t">>, type |-> TextType, size |-> 1]

Files == {SmallImage, LimitImage, LargeImage, TextFile}

Inputs == { <<" ">>, <<" ", "h", " ">> }

ModelUrls == {"/models/m1.glb"}
SummaryTexts == {"AI summary"}
ChatReplies == { <<"reply">> }
ViewModes == {"3d-model", "textured", "point-cloud"}
\* the model URLs of the runs that follow the viewer: two, so that modelUrl
\* can change
ViewerUrls == {"/models/m1.glb", "/models/m2.glb"}

\* ------------------------------------------------------------------- state
VARIABLES
  uploadedImage, imagePreviewUrl, imageName, generatedModel, summary,
  isGeneratingSummary, isGeneratingModel, viewMode, dragActive,
  uploadProgress, error,
  revokedUrls,
  uploads,
  panelId, messages, inputMessage, isLoading, isExporting,
  chatReqs, exportReqs,
  nSends, nChatIssued, nExports, nExportIssued,
  loading, viewerError, headReqs, nHeadIssued, headOutcome

homeVars == <<uploadedImage, imagePreviewUrl, imageName, generatedModel,
              summary, isGeneratingSummary, isGeneratingModel, viewMode,
              dragActive, uploadProgress, error, revokedUrls>>
chatVars == <<panelId, messages, inputMessage, isLoading, isExporting>>
counters == <<nSends, nChatIssued, nExports, nExportIssued>>
\* ModelViewer: loading, error (viewerError), its HEAD checks in flight, and
\* the outcome of the check of the current modelUrl
viewerVars == <<loading, viewerError, headReqs, nHeadIssued, headOutcome>>
vars == <<homeVars, uploads, chatVars, chatReqs, exportReqs, counters,
          viewerVars>>

Init ==
  /\ uploadedImage = <<>>
  /\ imagePreviewUrl = <<>>
  /\ imageName = <<>>
  /\ generatedModel = <<>>
  /\ summary = ""
  /\ isGeneratingSummary = FALSE
  /\ isGeneratingModel = FALSE
  /\ viewMode = "3d-model"
  /\ dragActive = FALSE
  /\ uploadProgress = 0
  /\ error = ""
  /\ revokedUrls = {}
  /\ uploads = <<>>
  /\ panelId = 0
  /\ messages = <<>>
  /\ inputMessage = <<>>
  /\ isLoading = FALSE
  /\ isExporting = FALSE
  /\ chatReqs = {}
  /\ exportReqs = {}
  /\ nSends = 0
  /\ nChatIssued = 0
  /\ nExports = 0
  /\ nExportIssued = 0
  /\ loading = TRUE
  /\ viewerError = <<>>
  /\ headReqs = {}
  /\ nHeadIssued = 0
  /\ headOutcome = "none"


\* ------------------------------------------------- rendering (what is shown)
\* page.tsx: {!generatedModel ? upload section : viewer + ChatPanel}
UploadSectionShown == generatedModel = <<>>
ChatMounted == generatedModel # <<>>
\* page.tsx: {isGeneratingModel ? loading state : upload UI with the file input}
FileInputShown == UploadSectionShown /\ ~isGeneratingModel

\* useState initial values of a freshly mounted ChatPanel
ChatMount ==
  /\ panelId' = panelId + 1
  /\ messages' = <<>>
  /\ inputMessage' = <<>>
  /\ isLoading' = FALSE
  /\ isExporting' = FALSE

\* the ChatPanel leaves the tree: its state is gone
ChatUnmount ==
  /\ panelId' = panelId
  /\ messages' = <<>>
  /\ inputMessage' = <<>>
  /\ isLoading' = FALSE
  /\ isExporting' = FALSE

\* ModelViewer's effect (on mount and whenever modelUrl changes): loading and
\* error are reset and a HEAD check of the url is issued; nothing stops the
\* checks issued before
ViewerEffect(url) ==
  /\ loading' = TRUE
  /\ viewerError' = <<>>
  /\ nHeadIssued' = nHeadIssued + 1
  /\ headReqs' = headReqs \cup
                   {[id |-> nHeadIssued + 1, panel |-> panelId', url |-> url]}
  /\ headOutcome' = "pending"

\* the ModelViewer leaves the tree: its state is gone, its checks stay in
\* flight
ViewerUnmount ==
  /\ loading' = TRUE
  /\ viewerError' = <<>>
  /\ headOutcome' = "none"
  /\ UNCHANGED <<headReqs, nHeadIssued>>

\* setGeneratedModel(m) and the re-render that follows it: the ChatPanel and
\* the ModelViewer are mounted and unmounted together (panelId counts the
\* mounts of both)
SetGeneratedModel(m) ==
  /\ generatedModel' = m
  /\ IF generatedModel = <<>> /\ m # <<>> THEN
       ChatMount /\ ViewerEffect(m[1].model_url)
     ELSE IF generatedModel # <<>> /\ m = <<>> THEN
       ChatUnmount /\ ViewerUnmount
     ELSE IF generatedModel # <<>> /\ m # <<>>
               /\ m[1].model_url # generatedModel[1].model_url THEN
       UNCHANGED chatVars /\ ViewerEffect(m[1].model_url)
     ELSE UNCHANGED <<chatVars, viewerVars>>

\* ------------------------------------------------------ Home: image upload
TypeInvalid(f) == ~StartsWith(f.type, ImagePrefix)

\* fault variant: the size check rejects a file of exactly the limit
SizeTooLarge_AtLimit(f) == f.size >= TenMB

SizeTooLarge(f) == f.size > TenMB

NewUpload(f) ==
  [file |-> f, pc |-> "fetch", interval |-> TRUE,
   convOk |-> FALSE, nConvert |-> 1, nSummary |-> 0]

\* fault variant: the file is stored before it is validated
handleImageUpload_ValidateLate(f) ==
  IF TypeInvalid(f) \/ SizeTooLarge(f) THEN
    /\ error' = (IF TypeInvalid(f) THEN ErrType ELSE ErrSize)
    /\ uploadedImage' = <<f>>
    /\ imageName' = StripExt(f.name)
    /\ UNCHANGED <<imagePreviewUrl, generatedModel, summary,
                   isGeneratingSummary, isGeneratingModel, viewMode,
                   uploadProgress, revokedUrls, uploads, chatVars, chatReqs,
                   exportReqs, counters, viewerVars>>
  ELSE
    /\ Len(uploads) < MaxUploads
    /\ error' = ""
    /\ uploadedImage' = <<f>>
    /\ imageName' = StripExt(f.name)
    /\ imagePreviewUrl' = <<Len(uploads) + 1>>
    /\ isGeneratingModel' = TRUE
    /\ uploadProgress' = 0
    /\ uploads' = Append(uploads, NewUpload(f))
    /\ UNCHANGED <<generatedModel, summary, isGeneratingSummary, viewMode,
                   revokedUrls, chatVars, chatReqs, exportReqs, counters,
                   viewerVars>>

\* handleImageUpload up to its first await (everything but dragActive)
handleImageUpload(f) ==
  IF TypeInvalid(f) THEN
    /\ error' = ErrType
    /\ UNCHANGED <<uploadedImage, imagePreviewUrl, imageName, generatedModel,
                   summary, isGeneratingSummary, isGeneratingModel, viewMode,
                   uploadProgress, revokedUrls, uploads, chatVars, chatReqs,
                   exportReqs, counters, viewerVars>>
  ELSE IF SizeTooLarge(f) THEN
    /\ error' = ErrSize
    /\ UNCHANGED <<uploadedImage, imagePreviewUrl, imageName, generatedModel,
                   summary, isGeneratingSummary, isGeneratingModel, viewMode,
                   uploadProgress, revokedUrls, uploads, chatVars, chatReqs,
                   exportReqs, counters, viewerVars>>
  ELSE
    /\ Len(uploads) < MaxUploads
    /\ error' = ""
    /\ uploadedImage' = <<f>>
    /\ imageName' = StripExt(f.name)
    /\ imagePreviewUrl' = <<Len(uploads) + 1>>
    /\ isGeneratingModel' = TRUE
    /\ uploadProgress' = 0
    /\ uploads' = Append(uploads, NewUpload(f))
    /\ UNCHANGED <<generatedModel, summary, isGeneratingSummary, viewMode,
                   revokedUrls, chatVars, chatReqs, exportReqs, counters,
                   viewerVars>>

\* onDragEnter / onDragOver / onDragLeave of the upload zone
handleDrag(type) ==
  /\ UploadSectionShown
  /\ dragActive' = (type \in {"dragenter", "dragover"})
  /\ UNCHANGED <<uploadedImage, imagePreviewUrl, imageName, generatedModel,
                 summary, isGeneratingSummary, isGeneratingModel, viewMode,
                 uploadProgress, error, revokedUrls, uploads, chatVars,
                 chatReqs, exportReqs, counters, viewerVars>>

\* onDrop of the upload zone, carrying no file
handleDropEmpty ==
  /\ UploadSectionShown
  /\ dragActive' = FALSE
  /\ UNCHANGED <<uploadedImage, imagePreviewUrl, imageName, generatedModel,
                 summary, isGeneratingSummary, isGeneratingModel, viewMode,
                 uploadProgress, error, revokedUrls, uploads, chatVars,
                 chatReqs, exportReqs, counters, viewerVars>>

\* onDrop of the upload zone, carrying a file
handleDrop(f) ==
  /\ UploadSectionShown
  /\ dragActive' = FALSE
  /\ handleImageUpload(f)

\* onChange of the file input
handleFileInput(f) ==
  /\ FileInputShown
  /\ handleImageUpload(f)
  /\ UNCHANGED dragActive

\* one firing of an upload's setInterval callback
ProgressTick(u) ==
  /\ u \in 1..Len(uploads)
  /\ uploads[u].interval
  /\ IF uploadProgress >= 90
       THEN /\ uploadProgress' = 90
            /\ uploads' = [uploads EXCEPT ![u].interval = FALSE]
       ELSE /\ uploadProgress' = uploadProgress + 10
            /\ UNCHANGED uploads
  /\ UNCHANGED <<uploadedImage, imagePreviewUrl, imageName, generatedModel,
                 summary, isGeneratingSummary, isGeneratingModel, viewMode,
                 dragActive, error, revokedUrls, chatVars, chatReqs,
                 exportReqs, counters, viewerVars>>

\* fault variant: the catch block forgets setGeneratedModel(null)
ConvertCatch_KeepsModel ==
  /\ error' = ErrConvert
  /\ UNCHANGED <<generatedModel, chatVars, viewerVars>>
  /\ isGeneratingModel' = FALSE
  /\ uploadProgress' = 0

\* catch + finally of handleImageUpload
ConvertCatch ==
  /\ error' = ErrConvert
  /\ SetGeneratedModel(<<>>)
  /\ isGeneratingModel' = FALSE
  /\ uploadProgress' = 0

\* fault variant: a rejected convert request is sent again
ConvertFetchReject_Retry(u) ==
  /\ u \in 1..Len(uploads)
  /\ uploads[u].pc = "fetch"
  /\ uploads' = [uploads EXCEPT ![u].nConvert = @ + 1]
  /\ UNCHANGED <<homeVars, chatVars, chatReqs, exportReqs, counters, viewerVars>>

\* fetch('/api/convert') rejects
ConvertFetchReject(u) ==
  /\ u \in 1..Len(uploads)
  /\ uploads[u].pc = "fetch"
  /\ ConvertCatch
  /\ uploads' = [uploads EXCEPT ![u].pc = "done"]
  /\ UNCHANGED <<uploadedImage, imagePreviewUrl, imageName, summary,
                 isGeneratingSummary, viewMode, dragActive, revokedUrls,
                 chatReqs, exportReqs, counters>>

\* fetch('/api/convert') resolves with a response that is not OK
ConvertFetchNotOk(u) ==
  /\ u \in 1..Len(uploads)
  /\ uploads[u].pc = "fetch"
  /\ ConvertCatch
  /\ uploads' = [uploads EXCEPT ![u].pc = "done", ![u].interval = FALSE]
  /\ UNCHANGED <<uploadedImage, imagePreviewUrl, imageName, summary,
                 isGeneratingSummary, viewMode, dragActive, revokedUrls,
                 chatReqs, exportReqs, counters>>

\* fetch('/api/convert') resolves with an OK response; response.json() starts
ConvertFetchOk(u) ==
  /\ u \in 1..Len(uploads)
  /\ uploads[u].pc = "fetch"
  /\ uploadProgress' = 100
  /\ uploads' = [uploads EXCEPT ![u].pc = "json", ![u].interval = FALSE]
  /\ UNCHANGED <<uploadedImage, imagePreviewUrl, imageName, generatedModel,
                 summary, isGeneratingSummary, isGeneratingModel, viewMode,
                 dragActive, error, revokedUrls, chatVars, chatReqs,
                 exportReqs, counters, viewerVars>>

\* response.json() of the convert response rejects
ConvertJsonReject(u) ==
  /\ u \in 1..Len(uploads)
  /\ uploads[u].pc = "json"
  /\ ConvertCatch
  /\ uploads' = [uploads EXCEPT ![u].pc = "done"]
  /\ UNCHANGED <<uploadedImage, imagePreviewUrl, imageName, summary,
                 isGeneratingSummary, viewMode, dragActive, revokedUrls,
                 chatReqs, exportReqs, counters>>

\* fault variant: the model is set but generateSummary is not called
ConvertJsonOk_NoSummary(u, url) ==
  /\ u \in 1..Len(uploads)
  /\ uploads[u].pc = "json"
  /\ SetGeneratedModel(<<[model_url |-> url, upload |-> u]>>)
  /\ isGeneratingModel' = FALSE
  /\ uploadProgress' = 0
  /\ uploads' = [uploads EXCEPT ![u].pc = "done", ![u].convOk = TRUE]
  /\ UNCHANGED <<uploadedImage, imagePreviewUrl, imageName, summary,
                 isGeneratingSummary, viewMode, dragActive, error,
                 revokedUrls, chatReqs, exportReqs, counters>>

ConvertedModel(u, url) == [model_url |-> url, upload |-> u]

\* response.json() resolves: setGeneratedModel(data), then generateSummary
\* runs up to its fetch
ConvertJsonOk(u, url) ==
  /\ u \in 1..Len(uploads)
  /\ uploads[u].pc = "json"
  /\ SetGeneratedModel(<<ConvertedModel(u, url)>>)
  /\ isGeneratingSummary' = TRUE
  /\ uploads' = [uploads EXCEPT ![u].pc = "sumFetch", ![u].convOk = TRUE,
                                ![u].nSummary = @ + 1]
  /\ UNCHANGED <<uploadedImage, imagePreviewUrl, imageName, summary,
                 isGeneratingModel, viewMode, dragActive, uploadProgress,
                 error, revokedUrls, chatReqs, exportReqs, counters>>

\* fault variant: a failed summary is handled like a failed conversion
SummaryCatch_FailsConversion(u) ==
  /\ summary' = SummaryFallback
  /\ error' = ErrConvert
  /\ SetGeneratedModel(<<>>)
  /\ isGeneratingSummary' = FALSE
  /\ isGeneratingModel' = FALSE
  /\ uploadProgress' = 0
  /\ uploads' = [uploads EXCEPT ![u].pc = "done"]
  /\ UNCHANGED <<uploadedImage, imagePreviewUrl, imageName, viewMode,
                 dragActive, revokedUrls, chatReqs, exportReqs, counters>>

\* generateSummary's catch + finally, then the finally of handleImageUpload
SummaryCatch(u) ==
  /\ summary' = SummaryFallback
  /\ isGeneratingSummary' = FALSE
  /\ isGeneratingModel' = FALSE
  /\ uploadProgress' = 0
  /\ uploads' = [uploads EXCEPT ![u].pc = "done"]
  /\ UNCHANGED <<uploadedImage, imagePreviewUrl, imageName, generatedModel,
                 viewMode, dragActive, error, revokedUrls, chatVars, chatReqs,
                 exportReqs, counters, viewerVars>>

\* fetch('/api/generate-summary') rejects, or resolves not OK
SummaryFetchFail(u) ==
  /\ u \in 1..Len(uploads)
  /\ uploads[u].pc = "sumFetch"
  /\ SummaryCatch(u)

\* fetch('/api/generate-summary') resolves OK; response.json() starts
SummaryFetchOk(u) ==
  /\ u \in 1..Len(uploads)
  /\ uploads[u].pc = "sumFetch"
  /\ uploads' = [uploads EXCEPT ![u].pc = "sumJson"]
  /\ UNCHANGED <<homeVars, chatVars, chatReqs, exportReqs, counters, viewerVars>>

\* response.json() of the summary response rejects
SummaryJsonReject(u) ==
  /\ u \in 1..Len(uploads)
  /\ uploads[u].pc = "sumJson"
  /\ SummaryCatch(u)

\* response.json() resolves: setSummary(data.summary), both finally blocks
SummaryJsonOk(u, text) ==
  /\ u \in 1..Len(uploads)
  /\ uploads[u].pc = "sumJson"
  /\ summary' = text
  /\ isGeneratingSummary' = FALSE
  /\ isGeneratingModel' = FALSE
  /\ uploadProgress' = 0
  /\ uploads' = [uploads EXCEPT ![u].pc = "done"]
  /\ UNCHANGED <<uploadedImage, imagePreviewUrl, imageName, generatedModel,
                 viewMode, dragActive, error, revokedUrls, chatVars, chatReqs,
                 exportReqs, counters, viewerVars>>

\* fault variant: Reset forgets setSummary('')
handleReset_KeepsSummary ==
  /\ generatedModel # <<>>
  /\ uploadedImage' = <<>>
  /\ imagePreviewUrl' = <<>>
  /\ imageName' = <<>>
  /\ SetGeneratedModel(<<>>)
  /\ error' = ""
  /\ viewMode' = "3d-model"
  /\ revokedUrls' = revokedUrls \cup {imagePreviewUrl[i] : i \in 1..Len(imagePreviewUrl)}
  /\ UNCHANGED <<summary, isGeneratingSummary, isGeneratingModel, dragActive,
                 uploadProgress, uploads, chatReqs, exportReqs, counters>>

\* "Upload New" button, rendered only with a generated model
handleReset ==
  /\ generatedModel # <<>>
  /\ uploadedImage' = <<>>
  /\ imagePreviewUrl' = <<>>
  /\ imageName' = <<>>
  /\ SetGeneratedModel(<<>>)
  /\ summary' = ""
  /\ error' = ""
  /\ viewMode' = "3d-model"
  /\ revokedUrls' = revokedUrls \cup {imagePreviewUrl[i] : i \in 1..Len(imagePreviewUrl)}
  /\ UNCHANGED <<isGeneratingSummary, isGeneratingModel, dragActive,
                 uploadProgress, uploads, chatReqs, exportReqs, counters>>

\* the three view-mode buttons of the viewer header
setViewMode(m) ==
  /\ generatedModel # <<>>
  /\ viewMode' = m
  /\ UNCHANGED <<uploadedImage, imagePreviewUrl, imageName, generatedModel,
                 summary, isGeneratingSummary, isGeneratingModel, dragActive,
                 uploadProgress, error, revokedUrls, uploads, chatVars,
                 chatReqs, exportReqs, counters, viewerVars>>


\* ---------------------------------------------------------------- ChatPanel
\* <input disabled={isLoading || isGeneratingSummary}>
InputDisabled == isLoading \/ isGeneratingSummary

\* <button disabled={!inputMessage.trim() || isLoading || isGeneratingSummary}>
SendDisabled == Trim(inputMessage) = <<>> \/ isLoading \/ isGeneratingSummary

\* <button disabled={isExporting || !summary}>
ExportDisabled == isExporting \/ summary = ""

UserMessage(text) == [role |-> "user", content |-> text]
AssistantMessage(text) == [role |-> "assistant", content |-> text]

\* onChange of the chat input
setInputMessage(s) ==
  /\ ChatMounted
  /\ ~InputDisabled
  /\ inputMessage' = s
  /\ UNCHANGED <<homeVars, uploads, panelId, messages, isLoading, isExporting,
                 chatReqs, exportReqs, counters, viewerVars>>

\* the request a send puts in flight; before is the transcript at the send
NewChatReq(userMessage) ==
  [id |-> nChatIssued + 1, panel |-> panelId, pc |-> "fetch", ok |-> FALSE,
   image_name |-> imageName,
   newMessages |-> Append(messages, UserMessage(userMessage)),
   user_message |-> userMessage,
   before |-> messages]

\* fault variant: the send forgets setIsLoading(true)
handleSendMessage_NoBusyFlag ==
  IF Trim(inputMessage) = <<>> \/ isLoading THEN
    UNCHANGED <<homeVars, uploads, chatVars, chatReqs, exportReqs, counters,
                  viewerVars>>
  ELSE
    /\ nSends + nExports < MaxChatRequests
    /\ inputMessage' = <<>>
    /\ messages' = Append(messages, UserMessage(Trim(inputMessage)))
    /\ chatReqs' = chatReqs \cup {NewChatReq(Trim(inputMessage))}
    /\ nSends' = nSends + 1
    /\ nChatIssued' = nChatIssued + 1
    /\ UNCHANGED <<homeVars, uploads, panelId, isLoading, isExporting,
                   exportReqs, nExports, nExportIssued, viewerVars>>

\* handleSendMessage up to its first await
handleSendMessage ==
  IF Trim(inputMessage) = <<>> \/ isLoading THEN
    UNCHANGED <<homeVars, uploads, chatVars, chatReqs, exportReqs, counters,
                  viewerVars>>
  ELSE
    /\ nSends + nExports < MaxChatRequests
    /\ inputMessage' = <<>>
    /\ messages' = Append(messages, UserMessage(Trim(inputMessage)))
    /\ isLoading' = TRUE
    /\ chatReqs' = chatReqs \cup {NewChatReq(Trim(inputMessage))}
    /\ nSends' = nSends + 1
    /\ nChatIssued' = nChatIssued + 1
    /\ UNCHANGED <<homeVars, uploads, panelId, isExporting, exportReqs,
                   nExports, nExportIssued, viewerVars>>

\* click on the Send button
SendClick ==
  /\ ChatMounted
  /\ ~SendDisabled
  /\ handleSendMessage

\* handleKeyPress with Enter (without Shift) in the chat input
handleKeyPress ==
  /\ ChatMounted
  /\ ~InputDisabled
  /\ handleSendMessage

\* a state setter of a ChatPanel acts only while that panel is mounted
PanelAlive(r) == ChatMounted /\ r.panel = panelId

\* fault variant: the catch block appends to the transcript of the render of the
\* send (messages) instead of newMessages
ChatCatch_StaleTranscript(r) ==
  /\ IF PanelAlive(r)
       THEN /\ messages' = Append(r.before, AssistantMessage(ChatErrorText))
            /\ isLoading' = FALSE
       ELSE UNCHANGED <<messages, isLoading>>
  /\ chatReqs' = chatReqs \ {r}
  /\ UNCHANGED <<homeVars, uploads, panelId, inputMessage, isExporting,
                 exportReqs, counters, viewerVars>>

\* catch + finally of handleSendMessage
ChatCatch(r) ==
  /\ IF PanelAlive(r)
       THEN /\ messages' = Append(r.newMessages, AssistantMessage(ChatErrorText))
            /\ isLoading' = FALSE
       ELSE UNCHANGED <<messages, isLoading>>
  /\ chatReqs' = chatReqs \ {r}
  /\ UNCHANGED <<homeVars, uploads, panelId, inputMessage, isExporting,
                 exportReqs, counters, viewerVars>>

\* fetch('/api/chat') rejects
ChatFetchReject(r) ==
  /\ r \in chatReqs
  /\ r.pc = "fetch"
  /\ ChatCatch(r)

\* fetch('/api/chat') resolves (OK or not); response.json() starts
ChatFetchResolve(r, ok) ==
  /\ r \in chatReqs
  /\ r.pc = "fetch"
  /\ chatReqs' = (chatReqs \ {r}) \cup {[r EXCEPT !.pc = "json", !.ok = ok]}
  /\ UNCHANGED <<homeVars, uploads, chatVars, exportReqs, counters, viewerVars>>

\* response.json() rejects, or resolves for a response that is not OK
ChatJsonFail(r) ==
  /\ r \in chatReqs
  /\ r.pc = "json"
  /\ ChatCatch(r)

\* fault variant: the reply replaces the transcript instead of being appended
ChatJsonOk_ReplacesTranscript(r, reply) ==
  /\ r \in chatReqs
  /\ r.pc = "json"
  /\ r.ok
  /\ IF PanelAlive(r)
       THEN /\ messages' = <<UserMessage(r.user_message), AssistantMessage(reply)>>
            /\ isLoading' = FALSE
       ELSE UNCHANGED <<messages, isLoading>>
  /\ chatReqs' = chatReqs \ {r}
  /\ UNCHANGED <<homeVars, uploads, panelId, inputMessage, isExporting,
                 exportReqs, counters, viewerVars>>

\* response.json() resolves for an OK response
ChatJsonOk(r, reply) ==
  /\ r \in chatReqs
  /\ r.pc = "json"
  /\ r.ok
  /\ IF PanelAlive(r)
       THEN /\ messages' = Append(r.newMessages, AssistantMessage(reply))
            /\ isLoading' = FALSE
       ELSE UNCHANGED <<messages, isLoading>>
  /\ chatReqs' = chatReqs \ {r}
  /\ UNCHANGED <<homeVars, uploads, panelId, inputMessage, isExporting,
                 exportReqs, counters, viewerVars>>

\* the request an Export click puts in flight
NewExportReq ==
  [id |-> nExportIssued + 1, panel |-> panelId, pc |-> "fetch",
   image_name |-> imageName, summary |-> summary,
   conversation_history |-> messages]

\* fault variant: the handler forgets setIsExporting(true)
handleExportReport_NoBusyFlag ==
  /\ ChatMounted
  /\ ~ExportDisabled
  /\ nSends + nExports < MaxChatRequests
  /\ exportReqs' = exportReqs \cup {NewExportReq}
  /\ nExports' = nExports + 1
  /\ nExportIssued' = nExportIssued + 1
  /\ UNCHANGED <<homeVars, uploads, chatVars, chatReqs, nSends, nChatIssued,
                 viewerVars>>

\* click on the Export button: handleExportReport up to its first await
handleExportReport ==
  /\ ChatMounted
  /\ ~ExportDisabled
  /\ nSends + nExports < MaxChatRequests
  /\ isExporting' = TRUE
  /\ exportReqs' = exportReqs \cup {NewExportReq}
  /\ nExports' = nExports + 1
  /\ nExportIssued' = nExportIssued + 1
  /\ UNCHANGED <<homeVars, uploads, panelId, messages, inputMessage, isLoading,
                 chatReqs, nSends, nChatIssued, viewerVars>>

\* fault variant: the finally block forgets setIsExporting(false)
ExportFinish_KeepsBusy(r) ==
  /\ exportReqs' = exportReqs \ {r}
  /\ UNCHANGED <<homeVars, uploads, chatVars, chatReqs, counters, viewerVars>>

\* the end of handleExportReport: catch (alert) or download, then finally
ExportFinish(r) ==
  /\ IF PanelAlive(r) THEN isExporting' = FALSE ELSE UNCHANGED isExporting
  /\ exportReqs' = exportReqs \ {r}
  /\ UNCHANGED <<homeVars, uploads, panelId, messages, inputMessage, isLoading,
                 chatReqs, counters, viewerVars>>

\* fetch('/api/export-report') rejects, or resolves not OK
ExportFetchFail(r) ==
  /\ r \in exportReqs
  /\ r.pc = "fetch"
  /\ ExportFinish(r)

\* fetch('/api/export-report') resolves OK; response.blob() starts
ExportFetchOk(r) ==
  /\ r \in exportReqs
  /\ r.pc = "fetch"
  /\ exportReqs' = (exportReqs \ {r}) \cup {[r EXCEPT !.pc = "blob"]}
  /\ UNCHANGED <<homeVars, uploads, chatVars, chatReqs, counters, viewerVars>>

\* response.blob() rejects
ExportBlobReject(r) ==
  /\ r \in exportReqs
  /\ r.pc = "blob"
  /\ ExportFinish(r)

\* response.blob() resolves: the PDF is downloaded
ExportBlobOk(r) ==
  /\ r \in exportReqs
  /\ r.pc = "blob"
  /\ ExportFinish(r)

\* -------------------------------------------------------------- ModelViewer
ViewerErrorText == "Unable to load 3D model. Please try again."

\* a setState of a HEAD check's callbacks acts on the viewer that issued it,
\* while it is mounted, whatever its modelUrl has become
ViewerAlive(r) == ChatMounted /\ r.panel = panelId

\* the outcome of the check of the current modelUrl (the last one issued)
HeadOutcomeAfter(r, outcome) ==
  IF ViewerAlive(r) /\ r.id = nHeadIssued THEN outcome ELSE headOutcome

\* .catch(err => { setError(...); setLoading(false) })
HeadCatch(r) ==
  /\ headReqs' = headReqs \ {r}
  /\ IF ViewerAlive(r)
       THEN viewerError' = <<ViewerErrorText>> /\ loading' = FALSE
       ELSE UNCHANGED <<loading, viewerError>>
  /\ headOutcome' = HeadOutcomeAfter(r, "failed")
  /\ UNCHANGED <<homeVars, uploads, chatVars, chatReqs, exportReqs, counters,
                 nHeadIssued>>

\* fetch(modelUrl, {method: 'HEAD'}) rejects
HeadReject(r) ==
  /\ r \in headReqs
  /\ HeadCatch(r)

\* the response is not OK: the .then callback throws
HeadNotOk(r) ==
  /\ r \in headReqs
  /\ HeadCatch(r)

\* the response is OK: setLoading(false)
HeadOk(r) ==
  /\ r \in headReqs
  /\ headReqs' = headReqs \ {r}
  /\ IF ViewerAlive(r) THEN loading' = FALSE ELSE UNCHANGED loading
  /\ headOutcome' = HeadOutcomeAfter(r, "ok")
  /\ UNCHANGED <<homeVars, uploads, chatVars, chatReqs, exportReqs, counters,
                 viewerError, nHeadIssued>>

\* ------------------------------------------------------------ specification
\* the settling of the requests of handleImageUpload and generateSummary,
\* the converter answering with a model url of the set urls
UploadStepsWith(urls) ==
  \/ \E u \in 1..Len(uploads) : ConvertFetchReject(u)
  \/ \E u \in 1..Len(uploads) : ConvertFetchNotOk(u)
  \/ \E u \in 1..Len(uploads) : ConvertFetchOk(u)
  \/ \E u \in 1..Len(uploads) : ConvertJsonReject(u)
  \/ \E u \in 1..Len(uploads), url \in urls : ConvertJsonOk(u, url)
  \/ \E u \in 1..Len(uploads) : SummaryFetchFail(u)
  \/ \E u \in 1..Len(uploads) : SummaryFetchOk(u)
  \/ \E u \in 1..Len(uploads) : SummaryJsonReject(u)
  \/ \E u \in 1..Len(uploads), t \in SummaryTexts : SummaryJsonOk(u, t)

UploadSteps == UploadStepsWith(ModelUrls)

\* the settling of the ModelViewer's HEAD checks
ViewerSteps ==
  \/ \E r \in headReqs : HeadReject(r)
  \/ \E r \in headReqs : HeadNotOk(r)
  \/ \E r \in headReqs : HeadOk(r)

\* the events of the ChatPanel and the settling of its requests
ChatSteps ==
  \/ \E s \in Inputs : setInputMessage(s)
  \/ SendClick
  \/ handleKeyPress
  \/ \E r \in chatReqs : ChatFetchReject(r)
  \/ \E r \in chatReqs, ok \in BOOLEAN : ChatFetchResolve(r, ok)
  \/ \E r \in chatReqs : ChatJsonFail(r)
  \/ \E r \in chatReqs, reply \in ChatReplies : ChatJsonOk(r, reply)
  \/ handleExportReport
  \/ \E r \in exportReqs : ExportFetchFail(r)
  \/ \E r \in exportReqs : ExportFetchOk(r)
  \/ \E r \in exportReqs : ExportBlobReject(r)
  \/ \E r \in exportReqs : ExportBlobOk(r)

\* the Home page alone: the chat panel is mounted and unmounted, never used
NextHome ==
  \/ \E t \in {"dragenter", "dragover", "dragleave"} : handleDrag(t)
  \/ handleDropEmpty
  \/ \E f \in Files : handleDrop(f)
  \/ \E f \in Files : handleFileInput(f)
  \/ \E u \in 1..Len(uploads) : ProgressTick(u)
  \/ UploadSteps
  \/ handleReset

\* the Home page and the chat panel, one upload at a time through the file
\* input, without the cosmetic state of the upload zone (dragActive, the
\* progress bar) and without the files that validation rejects
NextChat ==
  \/ handleFileInput(SmallImage)
  \/ UploadSteps
  \/ handleReset
  \/ \E m \in ViewModes : setViewMode(m)
  \/ ChatSteps

\* the Home page and the ModelViewer: uploads through the drop zone and the
\* file input, the converter answering with either url
NextViewer ==
  \/ \E f \in {SmallImage, LimitImage} : handleDrop(f)
  \/ handleFileInput(SmallImage)
  \/ UploadStepsWith(ViewerUrls)
  \/ handleReset
  \/ ViewerSteps

\* the Home page with its drop zone and the chat panel, without the cosmetic
\* state, the view mode and the files that validation rejects
NextSession ==
  \/ handleDrop(SmallImage)
  \/ handleFileInput(SmallImage)
  \/ UploadSteps
  \/ handleReset
  \/ ChatSteps

\* the settling of the chat requests in flight
ChatSettles ==
  \/ \E r \in chatReqs : ChatFetchReject(r)
  \/ \E r \in chatReqs, ok \in BOOLEAN : ChatFetchResolve(r, ok)
  \/ \E r \in chatReqs : ChatJsonFail(r)
  \/ \E r \in chatReqs, reply \in ChatReplies : ChatJsonOk(r, reply)

\* the settling of the export requests in flight
ExportSettles ==
  \/ \E r \in exportReqs : ExportFetchFail(r)
  \/ \E r \in exportReqs : ExportFetchOk(r)
  \/ \E r \in exportReqs : ExportBlobReject(r)
  \/ \E r \in exportReqs : ExportBlobOk(r)

SpecHome == Init /\ [][NextHome]_vars
SpecChat == Init /\ [][NextChat]_vars
SpecViewer == Init /\ [][NextViewer]_vars
SpecSession == Init /\ [][NextSession]_vars
\* every request in flight settles, and the callbacks of a settled promise
\* run: the continuations of the handlers are never starved
SpecLive ==
  /\ Init
  /\ [][NextSession]_vars
  /\ WF_vars(UploadSteps)
  /\ WF_vars(ChatSettles)
  /\ WF_vars(ExportSettles)


\* -------------------------------------------------------------- properties
IsPrefix(a, b) == Len(a) <= Len(b) /\ SubSeq(b, 1, Len(a)) = a

ConvertOutstanding == {u \in 1..Len(uploads) : uploads[u].pc = "fetch"}
SummaryOutstanding == {u \in 1..Len(uploads) : uploads[u].pc = "sumFetch"}
ChatOutstanding == {r \in chatReqs : r.pc = "fetch"}
ExportOutstanding == {r \in exportReqs : r.pc = "fetch"}

RECURSIVE UploadRequests(_)
UploadRequests(us) ==
  IF us = <<>> THEN 0
  ELSE Head(us).nConvert + Head(us).nSummary + UploadRequests(Tail(us))

\* every request issued so far
TotalIssued(us, chats, exports) == UploadRequests(us) + chats + exports

\* C1: at most one /api/convert request is outstanding at any time (no file
\* input change and no drop starts a second handleImageUpload before the
\* first request has settled).
C1_OneConvertOutstanding == Cardinality(ConvertOutstanding) <= 1

\* C2 as stated: at most one /api/chat request is outstanding at any time.
C2_OneChatOutstanding == Cardinality(chatReqs) <= 1

\* C2 amended: at most one /api/chat request of the mounted ChatPanel is
\* unsettled, and while isLoading is true the input and the Send button are
\* disabled and handleSendMessage itself can neither issue a request nor
\* change the transcript.
C2_OneChatRequestPerPanel ==
  /\ Cardinality({r \in chatReqs : PanelAlive(r)}) <= 1
  /\ isLoading =>
       /\ InputDisabled
       /\ SendDisabled
       /\ ~ENABLED (handleSendMessage /\ (chatReqs' # chatReqs \/ messages' # messages))

\* C2 witness: the mounted panel waits for its chat request while a request
\* of a panel that Reset unmounted is still unsettled.
C2_Witness ==
  /\ ChatMounted
  /\ isLoading
  /\ \E r \in chatReqs : PanelAlive(r)
  /\ \E r \in chatReqs : ~PanelAlive(r)

\* C3: a busy flag is true while a request of its kind is outstanding:
\* convert => isGeneratingModel, generate-summary => isGeneratingSummary,
\* chat => isLoading, export-report => isExporting.
C3_SpinnerWhileOutstanding ==
  /\ ConvertOutstanding # {} => isGeneratingModel
  /\ SummaryOutstanding # {} => isGeneratingSummary
  /\ ChatOutstanding # {} => isLoading
  /\ ExportOutstanding # {} => isExporting

\* C4: when a convert request fails (fetch rejects, status not OK, body not
\* parsable), the step that ends handleImageUpload leaves the generic error,
\* no generated model and isGeneratingModel false, and that upload has
\* issued no /api/generate-summary request, then or ever.
C4_ConvertFailureShown ==
  [][\A u \in 1..Len(uploads) :
       /\ (uploads[u].pc \in {"fetch", "json"} /\ uploads'[u].pc = "done") =>
            /\ error' = ErrConvert
            /\ generatedModel' = <<>>
            /\ ~isGeneratingModel'
            /\ uploads'[u].nSummary = 0
       /\ (uploads[u].pc = "done" /\ ~uploads[u].convOk) =>
            uploads'[u].nSummary = 0]_vars

\* C4 witness: an upload whose conversion failed, with the error shown.
C4_Witness ==
  /\ \E u \in 1..Len(uploads) : uploads[u].pc = "done" /\ ~uploads[u].convOk
  /\ error = ErrConvert
  /\ generatedModel = <<>>
  /\ ~isGeneratingModel

C6_NoRetry ==
  [][/\ \A u \in 1..Len(uploads') :
          /\ uploads'[u].nConvert = 1
          /\ uploads'[u].nSummary = (IF uploads'[u].convOk THEN 1 ELSE 0)
     /\ nChatIssued' = nSends'
     /\ nExportIssued' = nExports'
     /\ TotalIssued(uploads', nChatIssued', nExportIssued')
          \in {TotalIssued(uploads, nChatIssued, nExportIssued),
               TotalIssued(uploads, nChatIssued, nExportIssued) + 1}
     /\ TotalIssued(uploads', nChatIssued', nExportIssued')
          # TotalIssued(uploads, nChatIssued, nExportIssued) =>
            \/ Len(uploads') = Len(uploads) + 1
            \/ \E u \in 1..Len(uploads) :
                 uploads[u].pc = "json" /\ uploads'[u].pc = "sumFetch"
            \/ nSends' = nSends + 1
            \/ nExports' = nExports + 1]_vars

\* C6 witness: a convert, a summary, a chat and an export request have each
\* failed, and nothing is in flight.
C6_Witness ==
  /\ \E u \in 1..Len(uploads) : uploads[u].pc = "done" /\ ~uploads[u].convOk
  /\ \A u \in 1..Len(uploads) : uploads[u].pc = "done"
  /\ summary = SummaryFallback
  /\ \E i \in 1..Len(messages) : messages[i] = AssistantMessage(ChatErrorText)
  /\ nExports = 1
  /\ chatReqs = {}
  /\ exportReqs = {}

\* C7: a summary request is issued only by the step that receives the OK
\* convert response of the same upload and sets generatedModel from it, and
\* every such step issues the summary request (no user action in between).
C7_SummaryAfterConversion ==
  [][\A u \in 1..Len(uploads) :
       /\ uploads'[u].nSummary # uploads[u].nSummary =>
            /\ uploads[u].pc = "json"
            /\ generatedModel' # <<>>
            /\ generatedModel'[1].upload = u
            /\ uploads'[u].convOk
       /\ (uploads[u].pc = "json" /\ uploads'[u].convOk) =>
            /\ uploads'[u].pc = "sumFetch"
            /\ uploads'[u].nSummary = uploads[u].nSummary + 1
            /\ isGeneratingSummary'
       /\ uploads[u].pc \in {"sumFetch", "sumJson"} => uploads[u].convOk]_vars

\* C7 witness: the summary request of a converted upload is in flight.
C7_Witness ==
  \E u \in 1..Len(uploads) :
    /\ uploads[u].pc = "sumFetch"
    /\ generatedModel = <<ConvertedModel(u, "/models/m1.glb")>>

\* C8: while the ChatPanel stays mounted its transcript only grows by
\* appending: the old transcript is a prefix of the new one.
C8_TranscriptAppendOnly ==
  [][(ChatMounted /\ ChatMounted' /\ panelId' = panelId) =>
       IsPrefix(messages, messages')]_vars

\* C8 witness: two complete exchanges in one transcript, an export done and
\* the view mode changed.
C8_Witness ==
  /\ ChatMounted
  /\ Len(messages) = 4
  /\ ~isLoading
  /\ nExports = 1
  /\ viewMode # "3d-model"

\* C9: a file that fails validation sets error to the message of the failed
\* check and nothing else: no request, and uploadedImage, imageName,
\* imagePreviewUrl, generatedModel, summary, isGeneratingModel and
\* uploadProgress keep their values.
C9_RejectedUploadFrame ==
  [][\A f \in Files :
       ((~StartsWith(f.type, ImagePrefix) \/ f.size > TenMB)
          /\ (handleDrop(f) \/ handleFileInput(f))) =>
         /\ error' = (IF ~StartsWith(f.type, ImagePrefix) THEN ErrType ELSE ErrSize)
         /\ UNCHANGED <<uploadedImage, imageName, imagePreviewUrl,
                        generatedModel, summary, isGeneratingSummary,
                        isGeneratingModel, uploadProgress, uploads,
                        viewerVars>>]_vars

\* C9 witness: a file was rejected for its type after an earlier upload
\* had been accepted; the earlier image is still the uploaded one.
C9_Witness ==
  /\ error = ErrType
  /\ uploadedImage = <<SmallImage>>
  /\ imageName = <<"a">>
  /\ Len(uploads) = 1

SummaryFails(u) == SummaryFetchFail(u) \/ SummaryJsonReject(u)

PanelExports == {r \in exportReqs : PanelAlive(r)}

\* C12: an export request is issued only with the Export button enabled
\* (summary non-empty, no export of the mounted panel outstanding), it carries
\* the image name, the summary and the whole transcript as they are at the
\* click, and at most one export request issued by the mounted panel is
\* outstanding
C12_OneExportPerPanel ==
  [][/\ \A r \in exportReqs' :
          (\A q \in exportReqs : q.id # r.id) =>
          /\ ChatMounted
          /\ summary # ""
          /\ ~isExporting
          /\ PanelExports = {}
          /\ r.panel = panelId
          /\ r.image_name = imageName
          /\ r.summary = summary
          /\ r.conversation_history = messages
     /\ Cardinality({r \in exportReqs' :
                       generatedModel' # <<>> /\ r.panel = panelId'}) <= 1
     /\ (\E r \in exportReqs' :
           generatedModel' # <<>> /\ r.panel = panelId') => isExporting']_vars

\* C12 as stated: at most one /api/export-report request is outstanding
C12_OneExportOutstanding == Cardinality(exportReqs) <= 1

\* an export of a non-empty transcript is in flight
C12_Witness ==
  \E r \in PanelExports :
    /\ r.conversation_history # <<>>
    /\ r.conversation_history = messages
    /\ r.summary = summary
    /\ isExporting

\* ------------------------------------------------------------------- C13
\* the uploads whose handleImageUpload has not finished
UploadsInFlight == {u \in 1..Len(uploads) : uploads[u].pc # "done"}
\* the chat requests in flight that the mounted panel issued
PanelChats == {r \in chatReqs : PanelAlive(r)}

\* C13: every busy flag is eventually cleared: with every request settling,
\* isGeneratingModel, isGeneratingSummary, isLoading and isExporting each
\* lead to their being false, and each is false whenever no request of its
\* kind is left in flight
C13_BusyFlagsCleared ==
  /\ [](UploadsInFlight = {} => (~isGeneratingModel /\ ~isGeneratingSummary))
  /\ [](PanelChats = {} => ~isLoading)
  /\ [](PanelExports = {} => ~isExporting)
  /\ isGeneratingModel ~> ~isGeneratingModel
  /\ isGeneratingSummary ~> ~isGeneratingSummary
  /\ isLoading ~> ~isLoading
  /\ isExporting ~> ~isExporting

\* all four kinds of request have been issued and have settled, after a Reset
C13_Witness ==
  /\ Len(uploads) = MaxUploads
  /\ UploadsInFlight = {}
  /\ nSends > 0
  /\ nExports > 0
  /\ chatReqs = {}
  /\ exportReqs = {}
  /\ ~isGeneratingModel
  /\ ~isGeneratingSummary
  /\ ~isLoading
  /\ ~isExporting

\* ------------------------------------------------------------------- C14
\* a step in which a chat request issued by a panel no longer mounted settles
StaleChatSettles ==
  \E r \in chatReqs :
    /\ ~PanelAlive(r)
    /\ \/ ChatFetchReject(r)
       \/ ChatJsonFail(r)
       \/ \E reply \in ChatReplies : ChatJsonOk(r, reply)

\* C14: handleReset empties uploadedImage, imagePreviewUrl, imageName,
\* summary and error, nulls generatedModel, sets viewMode to '3d-model', and
\* the upload section replaces the viewer and the chat panel; every newly
\* mounted chat panel starts with an empty transcript, which the replies to
\* the requests of an earlier panel never enter
C14_ResetToUploadState ==
  /\ [][handleReset =>
          /\ uploadedImage' = <<>>
          /\ imagePreviewUrl' = <<>>
          /\ imageName' = <<>>
          /\ summary' = ""
          /\ error' = ""
          /\ generatedModel' = <<>>
          /\ viewMode' = "3d-model"
          /\ UploadSectionShown'
          /\ ~ChatMounted'
          /\ messages' = <<>>]_vars
  /\ [][panelId' # panelId => (messages' = <<>> /\ inputMessage' = <<>>)]_vars
  /\ [][StaleChatSettles => UNCHANGED messages]_vars

\* the panel of a second converted image has an empty transcript while a
\* request of the first panel, which had a transcript, is still in flight
C14_Witness ==
  /\ ChatMounted
  /\ panelId = 2
  /\ messages = <<>>
  /\ viewMode = "3d-model"
  /\ \E r \in chatReqs : r.panel = 1 /\ r.newMessages # <<>>

\* ------------------------------------------------------------------- C16
\* the HEAD checks in flight that the mounted ModelViewer issued
HeadOutstanding == {r \in headReqs : ViewerAlive(r)}
\* the check of the current modelUrl is in flight
CurrentHeadOutstanding == \E r \in HeadOutstanding : r.id = nHeadIssued

\* C16: the viewer's overlays follow the HEAD check of the current modelUrl:
\* while that check is outstanding loading is true and error is null, and
\* whenever no check is outstanding loading is false and error is non-null
\* exactly when the check of the current modelUrl failed
C16_OverlaysFollowCurrentCheck ==
  ChatMounted =>
    /\ CurrentHeadOutstanding => (loading /\ viewerError = <<>>)
    /\ HeadOutstanding = {} =>
         (~loading /\ (viewerError # <<>> <=> headOutcome = "failed"))

\* ------------------------------------------------------------------- C15
\* C15: while isGeneratingSummary is true the chat input and the Send button
\* are disabled, and between the start and the settlement of a
\* /api/generate-summary request no /api/chat request is issued and the
\* transcript does not change
C15_NoChatWhileSummarizing ==
  /\ [](isGeneratingSummary => (InputDisabled /\ SendDisabled))
  /\ [][(isGeneratingSummary \/ SummaryOutstanding # {}) =>
          /\ \A r \in chatReqs' : \E q \in chatReqs : q.id = r.id
          /\ messages' = messages]_vars

\* ------------------------------------------------------------------- C17
\* C17: a non-null generatedModel is the response of the /api/convert request
\* of the most recently accepted upload, the one whose file name without
\* extension is imageName
C17_ModelOfLatestUpload ==
  generatedModel # <<>> =>
    /\ generatedModel[1].upload = Len(uploads)
    /\ imageName = StripExt(uploads[Len(uploads)].file.name)
====
